---- MODULE Spec2Model ----
(***************************************************************************)
(* Konsolai bridge: the session registry (overlay + persisted store + live *)
(* tmux sessions reconciled into summaries and details), the hook event    *)
(* handler that feeds it, the WebSocket connection manager that broadcasts *)
(* events, and the hook listener that reads the hook sockets.              *)
(*                                                                         *)
(* Python values are modelled as follows.                                  *)
(*   dict            a TLA+ function whose DOMAIN is the set of keys       *)
(*   ClaudeState     the enum's string values                              *)
(*   datetime        a positive integer; datetime.min is DatetimeMin       *)
(*   None            NoneDt for a datetime, [found |-> FALSE] for a detail *)
(*   a raised error  the name of the exception class, as a string          *)
(***************************************************************************)
EXTENDS Integers, Sequences, FiniteSets, TLC

VARIABLES
    state_cache,   \* SessionRegistry._state_cache: dict name -> ClaudeState
    sessions_file, \* content of sessions.json: dict name -> persisted record
    tmux,          \* the konsolai sessions tmux lists, in listing order
    response,      \* what the operation just performed returned
    file_state,    \* what reading sessions.json yields: records, or a failure
    connections,   \* ConnectionManager._connections: list of WebSocket
    lock,          \* ConnectionManager._lock: its holder, or Unlocked
    endpoint,      \* each WebSocket's websocket_endpoint coroutine: where it is
    broadcast,     \* the frame of ConnectionManager.broadcast
    running,       \* HookListener._running
    monitor_task,  \* HookListener._monitor_task: None or the task
    monitor,       \* the task running _monitor_loop: where it is
    tasks,         \* HookListener._tasks: dict id -> task
    spawned,       \* the tasks created to run _listen_socket, per id
    sockets,       \* the <id>.sock files of the socket directory
    wire,          \* every line the hook sockets' servers wrote, in order
    calls,         \* every call of the callback, in order
    lifespan,      \* where the application's lifespan is
    monitor_log,   \* what the last round of _monitor_loop logged
    bearer_token,  \* BridgeConfig.bearer_token of app.state.config
    http,          \* the last REST request and the response to it
    inbound        \* the last text frame a client sent, and what it was sent back

registryVars == <<state_cache, sessions_file, tmux, response>>

wsVars == <<connections, lock, endpoint, broadcast, inbound>>

listenerVars ==
    <<running, monitor_task, monitor, tasks, spawned, sockets, wire, calls,
      lifespan, monitor_log>>

authVars == <<bearer_token, http>>

vars == <<registryVars, file_state, authVars, wsVars, listenerVars>>

----------------------------------------------------------------------------
(* Bounds of the model *)

\* the hook sockets' servers write at most MaxLines lines in all
MaxLines == 3

\* at most MaxSpawns tasks are ever created for one socket id
MaxSpawns == 2

\* lastActivity timestamps written to sessions.json range over 1..MaxTime
MaxTime == 2

\* the most sessions a listing handed to a vehicle route has
MaxSessions == 8

----------------------------------------------------------------------------
(* models.py: ClaudeState *)

NOT_RUNNING == "not_running"
STARTING == "starting"
IDLE == "idle"
WORKING == "working"
WAITING_INPUT == "waiting_input"
ERROR == "error"

ClaudeState == {NOT_RUNNING, STARTING, IDLE, WORKING, WAITING_INPUT, ERROR}

----------------------------------------------------------------------------
(* The values the model draws its inputs from *)

\* session names (tests/conftest.py); both match tmux._SESSION_RE
SessionNames == {"konsolai-Default-a1b2c3d4", "konsolai-Dev-e5f6a7b8"}

\* the "state" strings the C++ side may have written; "" stands for an
\* absent key too, since both reach _parse_state as meta.get("state", "")
StateStrings == {"", "Idle", "WaitingInput", "WaitingForInput", "Error", "Paused"}

\* the "lastActivity" value of a record: NoDate when the key is absent or
\* the string is not ISO-8601, else the instant it denotes
NoDate == 0
DateValues == {NoDate} \cup (1..MaxTime)

\* a last_activity of None, and datetime.min, which precedes every instant
NoneDt == -1
DatetimeMin == 0

\* an ISO-8601 string with no UTC offset, such as "2024-01-01T12:00:00":
\* datetime.fromisoformat gives a naive datetime for it.  The naive datetime
\* of the wall-clock time t is NaiveOffset + t
NaiveOffset == 100
NaiveDates == {NaiveOffset + t : t \in 1..MaxTime}

\* dt.tzinfo is None
is_naive(dt) == dt > NaiveOffset

\* records whose lastActivity has no UTC offset
NaiveRecord == [state : StateStrings, lastActivity : NaiveDates]

PersistedRecord == [state : StateStrings, lastActivity : DateValues]

\* persisted.get(name, {}) of a name that has no record
EmptyMeta == [state |-> "", lastActivity |-> NoDate]

\* the stems of the hook sockets events arrive on; the last one belongs to
\* no session
ShortIds == {"a1b2c3d4", "e5f6a7b8", "0badc0de"}

\* a parsed line of a hook socket: a JSON object, as a dict
JsonObject(items) == [json |-> "object", items |-> items]

HookEvents ==
    {JsonObject([type |-> "Stop"]),
     JsonObject([type |-> "PreToolUse", tool |-> "Bash"]),
     JsonObject([type |-> "PostToolUse", tool |-> "Bash"]),
     JsonObject([type |-> "Notification", message |-> "Permission needed"]),
     JsonObject([type |-> "SessionStart"]),
     JsonObject([tool |-> "Bash"])}

Range(s) == {s[i] : i \in DOMAIN s}

\* d.get(key, default)
dict_get(d, key, default) == IF key \in DOMAIN d THEN d[key] ELSE default

\* the orders in which a dict with key set S may iterate
KeyOrders(S) ==
    {o \in [1..Cardinality(S) -> S] : \A i, j \in DOMAIN o : o[i] = o[j] => i = j}

----------------------------------------------------------------------------
(* session_registry.py *)

parse_state(raw) ==
    CASE raw = "NotRunning" -> NOT_RUNNING
      [] raw = "Starting" -> STARTING
      [] raw = "Idle" -> IDLE
      [] raw = "Working" -> WORKING
      [] raw = "WaitingInput" -> WAITING_INPUT
      [] raw = "WaitingForInput" -> WAITING_INPUT
      [] raw = "Error" -> ERROR
      [] OTHER -> NOT_RUNNING

parse_dt(val) == IF val = NoDate THEN NoneDt ELSE val

\* what sessions.json may be when it is read:
\*   records          a JSON list or dict of records, parsing to sessions_file
\*   missing          no such file
\*   unreadable       read_text() raises (permissions, encoding)
\*   not_json         json.loads raises
\*   scalar           valid JSON that is neither a list nor a dict
\*   list_of_scalars  a JSON list whose items are not dicts
\*   dict_of_scalars  a JSON dict whose values are not dicts
FileStates ==
    {"records", "missing", "unreadable", "not_json", "scalar",
     "list_of_scalars", "dict_of_scalars"}

\* a value of the parsed dict that is not a dict itself, such as the string
\* of {"konsolai-Default-a1b2c3d4": "idle"}
NonRecord == [json |-> "string"]

ScalarsDict == [n \in {"konsolai-Default-a1b2c3d4"} |-> NonRecord]

is_dict(value) == "json" \notin DOMAIN value

\* self._read_persisted(): {} for a missing file (148-149), for an exception
\* of read_text, json.loads or the comprehension over a list (150-157) and
\* for JSON of another type (158); a dict is returned as parsed (154-155)
read_persisted ==
    CASE file_state = "records" -> sessions_file
      [] file_state = "dict_of_scalars" -> ScalarsDict
      [] OTHER -> <<>>

\* persisted.get(name, {})
meta_of(persisted, name) ==
    IF name \in DOMAIN persisted THEN persisted[name] ELSE EmptyMeta

\* cached_or_parsed with the precedence reversed: the record's state string
\* wins over the overlay
M_cached_or_parsed(cache, name, meta) ==
    IF meta.state # "" THEN parse_state(meta.state)
    ELSE IF name \in DOMAIN cache THEN cache[name] ELSE NOT_RUNNING

\* self._state_cache.get(name, _parse_state(meta.get("state", "")))
cached_or_parsed(cache, name, meta) ==
    IF name \in DOMAIN cache THEN cache[name] ELSE parse_state(meta.state)

\* needs_attention_of without the error state
M_needs_attention_of(state) == state = WAITING_INPUT

needs_attention_of(state) == state \in {WAITING_INPUT, ERROR}

\* the SessionSummary built for one entry of the live list
live_summary(cache, persisted, name) ==
    LET meta == meta_of(persisted, name)
        state == cached_or_parsed(cache, name, meta)
    IN  [name |-> name,
         state |-> state,
         needs_attention |-> needs_attention_of(state),
         last_activity |-> parse_dt(meta.lastActivity)]

\* persisted_summary taking the state from the record instead of forcing
\* not_running
M_persisted_summary(persisted, name) ==
    [name |-> name,
     state |-> parse_state(persisted[name].state),
     needs_attention |-> parse_state(persisted[name].state) \in {WAITING_INPUT, ERROR},
     last_activity |-> parse_dt(persisted[name].lastActivity)]

\* the SessionSummary built for a persisted record that has no live entry
persisted_summary(persisted, name) ==
    [name |-> name,
     state |-> NOT_RUNNING,
     needs_attention |-> FALSE,
     last_activity |-> parse_dt(persisted[name].lastActivity)]

\* sort_key without the `not`
M_sort_key(s) ==
    <<IF s.needs_attention THEN 1 ELSE 0,
      IF s.last_activity = NoneDt THEN DatetimeMin ELSE s.last_activity>>

\* key=lambda s: (not s.needs_attention, s.last_activity or datetime.min)
sort_key(s) ==
    <<IF s.needs_attention THEN 0 ELSE 1,
      IF s.last_activity = NoneDt THEN DatetimeMin ELSE s.last_activity>>

key_less(a, b) == a[1] < b[1] \/ (a[1] = b[1] /\ a[2] < b[2])

\* list.sort is stable: x goes after every element whose key is not greater
RECURSIVE insert_sorted(_, _)
insert_sorted(s, x) ==
    IF s = <<>> THEN <<x>>
    ELSE IF key_less(sort_key(x), sort_key(Head(s)))
         THEN <<x>> \o s
         ELSE <<Head(s)>> \o insert_sorted(Tail(s), x)

RECURSIVE sort_results(_)
sort_results(s) ==
    IF s = <<>> THEN <<>>
    ELSE insert_sorted(sort_results(SubSeq(s, 1, Len(s) - 1)), s[Len(s)])

SelectNotSeen(order, seen) == SelectSeq(order, LAMBDA n : n \notin seen)

\* list_sessions(), lines 72-101: the results before the sort; live is the
\* list tmux returned, order the iteration order of the persisted dict
collect_sessions(cache, persisted, live, order) ==
    LET seen == Range(live)
        from_live == [i \in DOMAIN live |-> live_summary(cache, persisted, live[i])]
        rest == SelectNotSeen(order, seen)
        from_file == [i \in DOMAIN rest |-> persisted_summary(persisted, rest[i])]
    IN  from_live \o from_file

\* the sort of line 103 raises TypeError when it compares a naive datetime
\* with an aware one (datetime.min.replace(tzinfo=timezone.utc) is aware):
\* the second components of two keys are compared when the first are equal
sort_raises(results) ==
    \E i, j \in DOMAIN results :
        /\ sort_key(results[i])[1] = sort_key(results[j])[1]
        /\ is_naive(sort_key(results[i])[2]) # is_naive(sort_key(results[j])[2])

\* list_sessions()
list_sessions(cache, persisted, live, order) ==
    sort_results(collect_sessions(cache, persisted, live, order))

\* a lookup that forgets the entries of the names it is not asked for
M_after_get(cache, names) == [n \in DOMAIN cache \cap names |-> cache[n]]

\* self._state_cache after the self._state_cache.get(name, ...) calls of
\* lines 75 and 113: dict.get stores nothing
after_get(cache, names) == cache

\* list_sessions() raises where it calls meta.get on a value that is not a
\* dict: line 75 for a live name, line 93 for any other key
list_sessions_raises(persisted, live) ==
    \E name \in DOMAIN persisted : ~is_dict(persisted[name])

\* get_session(name) raises at line 113, where it calls meta.get
get_session_raises(persisted, name) ==
    name \in DOMAIN persisted /\ ~is_dict(persisted[name])

\* get_session with `or` for the `and` of line 111
M_get_session_or(cache, persisted, exists, name) ==
    LET meta == meta_of(persisted, name)
        cached == cached_or_parsed(cache, name, meta)
        state == IF ~exists THEN NOT_RUNNING ELSE cached
    IN  IF ~exists \/ name \notin DOMAIN persisted
        THEN [found |-> FALSE]
        ELSE [found |-> TRUE,
              name |-> name,
              state |-> state,
              needs_attention |-> needs_attention_of(state),
              last_activity |-> parse_dt(meta.lastActivity)]

\* get_session without the override for a session tmux does not have
M_get_session(cache, persisted, exists, name) ==
    LET meta == meta_of(persisted, name)
        state == IF name \in DOMAIN cache THEN cache[name] ELSE parse_state(meta.state)
    IN  IF ~exists /\ name \notin DOMAIN persisted
        THEN [found |-> FALSE]
        ELSE [found |-> TRUE,
              name |-> name,
              state |-> state,
              needs_attention |-> state \in {WAITING_INPUT, ERROR},
              last_activity |-> parse_dt(meta.lastActivity)]

\* get_session(name): exists is what tmux.session_exists(name) returned
get_session(cache, persisted, exists, name) ==
    LET meta == meta_of(persisted, name)
        cached == cached_or_parsed(cache, name, meta)
        state == IF ~exists THEN NOT_RUNNING ELSE cached
    IN  IF ~exists /\ name \notin DOMAIN persisted
        THEN [found |-> FALSE]
        ELSE [found |-> TRUE,
              name |-> name,
              state |-> state,
              needs_attention |-> needs_attention_of(state),
              last_activity |-> parse_dt(meta.lastActivity)]

\* tmux.session_exists(name)
session_exists(name) == name \in Range(tmux)

----------------------------------------------------------------------------
(* tmux.py *)

\* TmuxSessionInfo.__post_init__: group 2 of _SESSION_RE, the 8 hex digits
\* that end the name
session_id_of(name) ==
    CASE name = "konsolai-Default-a1b2c3d4" -> "a1b2c3d4"
      [] name = "konsolai-Dev-e5f6a7b8" -> "e5f6a7b8"
      [] OTHER -> ""

----------------------------------------------------------------------------
(* routes/websocket.py *)

STATE_CHANGED == "state_changed"
NOTIFICATION == "notification"

\* emit_event(event_type, session_name, data): the WSEvent handed to
\* ws_manager.broadcast
emit_event(event_type, session_name, data) ==
    [type |-> event_type, session_name |-> session_name, data |-> data]

----------------------------------------------------------------------------
(* main.py: hook_event_handler *)

AttributeError == "AttributeError"
TypeError == "TypeError"

\* what an instance of SessionRegistry has: the attributes __init__ sets and
\* the methods the class defines
RegistryAttributes ==
    {"_sessions_file", "_socket_dir", "_tmux", "_state_cache",
     "update_state", "list_sessions", "get_session", "_read_persisted",
     "_extract_tokens", "_extract_yolo", "_parse_dt"}

\* the ways `await registry.resolve_session_id(session_id)` can end: the
\* attribute lookup raises when the instance has no such attribute
resolve_session_id(session_id) ==
    IF "resolve_session_id" \in RegistryAttributes
    THEN [raised : {""}, value : {""} \cup SessionNames]
    ELSE {[raised |-> AttributeError, value |-> ""]}

\* an update_state that keeps the value of an entry the dict already has
M_update_state(cache, session_name, state) ==
    [n \in DOMAIN cache \cup {session_name} |->
        IF n \in DOMAIN cache THEN cache[n] ELSE state]

\* registry.update_state(session_name, state) on the dict
update_state(cache, session_name, state) ==
    [n \in DOMAIN cache \cup {session_name} |->
        IF n = session_name THEN state ELSE cache[n]]

\* lines 43-81: the branch for the event type, then the generic forwarding
dispatch(cache, session_name, event_type, event) ==
    LET generic == emit_event(NOTIFICATION, session_name,
                              [hook_event |-> event_type, raw |-> event])
    IN  CASE event_type = "Stop" ->
               [cache |-> update_state(cache, session_name, IDLE),
                emitted |-> <<emit_event(STATE_CHANGED, session_name,
                                         [state |-> "idle"]),
                              generic>>]
          [] event_type = "PreToolUse" ->
               [cache |-> update_state(cache, session_name, WORKING),
                emitted |-> <<emit_event(STATE_CHANGED, session_name,
                                         [state |-> "working",
                                          tool |-> dict_get(event, "tool", "")]),
                              generic>>]
          [] event_type = "PostToolUse" ->
               [cache |-> cache,
                emitted |-> <<emit_event(STATE_CHANGED, session_name,
                                         [state |-> "working",
                                          tool |-> dict_get(event, "tool", ""),
                                          phase |-> "post"]),
                              generic>>]
          [] event_type = "Notification" ->
               [cache |-> cache,
                emitted |-> <<emit_event(NOTIFICATION, session_name,
                                         [message |-> dict_get(event, "message", "")]),
                              generic>>]
          [] OTHER ->
               [cache |-> cache, emitted |-> <<generic>>]

\* hook_event_handler(session_id, event), given how the call of line 39
\* ended; event.get of line 35 raises when event is not a dict
\* the statements of the handler that write the overlay or broadcast, in the
\* order the handler runs them once the session name is known
statements(session_name, event_type, event) ==
    LET update(state) == [op |-> "update_state", session_name |-> session_name,
                          state |-> state]
        emit(n) == [op |-> "emit_event",
                    envelope |-> dispatch(<<>>, session_name, event_type,
                                          event).emitted[n]]
    IN  CASE event_type = "Stop" -> <<update(IDLE), emit(1), emit(2)>>
          [] event_type = "PreToolUse" -> <<update(WORKING), emit(1), emit(2)>>
          [] event_type \in {"PostToolUse", "Notification"} -> <<emit(1), emit(2)>>
          [] OTHER -> <<emit(1)>>

hook_event_handler(cache, session_id, event, resolved) ==
    LET event_type == dict_get(event.items, "type", "")
        session_name == IF resolved.value = "" THEN session_id ELSE resolved.value
        done == dispatch(cache, session_name, event_type, event.items)
    IN  IF event.json # "object"
        THEN [raised |-> AttributeError, session_name |-> "",
              cache |-> cache, emitted |-> <<>>]
        ELSE IF resolved.raised # ""
        THEN [raised |-> resolved.raised, session_name |-> "",
              cache |-> cache, emitted |-> <<>>]
        ELSE [raised |-> "", session_name |-> session_name,
              cache |-> done.cache, emitted |-> done.emitted]

----------------------------------------------------------------------------
(* config.py, auth.py and the token check of websocket_endpoint *)

\* the values bearer_token is configured with: "" is the default
ConfiguredTokens == {"", "s3cret"}

\* a check that lets every connection in
M_authorized(configured, token) == TRUE

\* websocket.py, line 72, negated: the connection goes on to connect()
authorized(configured, token) == ~(configured # "" /\ token # configured)

\* no Authorization header of the Bearer scheme: HTTPBearer(auto_error=False)
\* gives None
NoCredentials == "None"

\* creds.credentials of a request, or NoCredentials
Credentials == {NoCredentials, "s3cret", "wrong"}

HTTP_401_UNAUTHORIZED == 401

\* a verify_token that accepts whatever credentials are sent
M_verify_token(creds, configured) ==
    IF configured = "" THEN 0
    ELSE IF creds = NoCredentials THEN HTTP_401_UNAUTHORIZED
    ELSE 0

\* verify_token(creds, config): the status of the HTTPException it raises,
\* 0 when it returns
verify_token(creds, configured) ==
    IF configured = "" THEN 0
    ELSE IF creds = NoCredentials \/ creds # configured THEN HTTP_401_UNAUTHORIZED
    ELSE 0

\* no REST request yet
NoRequest == [route |-> "none"]

----------------------------------------------------------------------------
(* routes/websocket.py: ConnectionManager *)

\* the WebSocket objects of the clients that connect
WebSockets == {"ws1", "ws2", "ws3"}

\* the `token` query parameter each client connects with; "" is the default
\* of a client that sends none
token_of(ws) ==
    CASE ws = "ws1" -> "s3cret"
      [] ws = "ws2" -> "wrong"
      [] OTHER -> ""

\* asyncio.Lock(): not held
Unlocked == "unlocked"

\* the events handed to broadcast: they differ in type and in session
Envelopes ==
    {emit_event(STATE_CHANGED, "konsolai-Default-a1b2c3d4", [state |-> "idle"]),
     emit_event(NOTIFICATION, "konsolai-Dev-e5f6a7b8", [message |-> "Permission needed"])}

\* event.model_dump_json(): the JSON text, as its keys and values in order
model_dump_json(event) ==
    <<"type", event.type, "session_name", event.session_name, "data", event.data>>

\* no call of broadcast yet
NoBroadcast ==
    [pc |-> "none", event |-> <<>>, payload |-> <<>>, i |-> 0,
     dead |-> <<>>, sends |-> <<>>, raised |-> ""]

\* a loop that steps over the subscriber after each one it serves
M_for_next(conns, i) == IF i + 1 < Len(conns) THEN i + 2 ELSE 0

\* `for ws in self._connections`: the index after i, 0 when the loop is over
for_next(conns, i) == IF i < Len(conns) THEN i + 1 ELSE 0

CancelledError == "CancelledError"

\* a lock taken with acquire() and released after the loop only
M_aexit(holder) == holder

\* `async with self._lock`: __aexit__ releases the lock when an exception
\* leaves the block
aexit(holder) == Unlocked

\* a broadcast that leaves the list as it is
M_remove_dead(conns, dead) == conns

\* lines 48-49: every ws of dead removed from the list
remove_dead(conns, dead) ==
    SelectSeq(conns, LAMBDA ws : ws \notin Range(dead))

\* the text frames a client sends
Frames == {"ping", " PING\n", "pong", "{\"type\": \"ping\"}"}

\* data.strip().lower()
strip_lower(data) ==
    CASE data = " PING\n" -> "ping"
      [] OTHER -> data

\* a test of the frame as it came
M_is_ping(data) == data = "ping"

\* line 82: `data.strip().lower() == "ping"`
is_ping(data) == strip_lower(data) = "ping"

\* json.dumps({"type": "pong"})
Pong == "{\"type\": \"pong\"}"

\* no frame received yet
NoInbound == [ws |-> "", data |-> "", replies |-> <<>>]

\* list.remove(ws) of a ws that is not in the list
ValueError == "ValueError"

\* self._connections.remove(ws): the first occurrence of ws leaves the list
remove_connection(conns, ws) ==
    LET i == CHOOSE k \in DOMAIN conns :
                 conns[k] = ws /\ \A j \in 1..(k - 1) : conns[j] # ws
    IN  SubSeq(conns, 1, i - 1) \o SubSeq(conns, i + 1, Len(conns))

\* a disconnect that leaves the list as it is
M_disconnect_keeps(conns, ws) == [connections |-> conns, raised |-> ""]

\* a disconnect that removes without looking first
M_disconnect(conns, ws) ==
    IF ws \in Range(conns)
    THEN [connections |-> remove_connection(conns, ws), raised |-> ""]
    ELSE [connections |-> conns, raised |-> ValueError]

\* disconnect(ws), lines 34-35: the list it leaves, and what it raises
disconnect(conns, ws) ==
    IF ws \in Range(conns)
    THEN [connections |-> remove_connection(conns, ws), raised |-> ""]
    ELSE [connections |-> conns, raised |-> ""]

----------------------------------------------------------------------------
(* hook_listener.py: HookListener *)

None == "None"

\* the stems of the socket files of the socket directory
SocketIds == {"a1b2c3d4", "e5f6a7b8"}

\* the lines a hook socket's server may write
StopLine == "{\"type\": \"Stop\"}"
NoTypeLine == "{\"tool\": \"Bash\"}"
ArrayLine == "[1, 2]"
GarbageLine == "not json"
BlankLine == "  "

Lines == {StopLine, NoTypeLine, ArrayLine, GarbageLine, BlankLine}

\* line.decode(errors="replace").strip()
strip(text) == IF text = BlankLine THEN "" ELSE text

JSONDecodeError == "JSONDecodeError"

\* json.loads(line_str): the parsed value, or JSONDecodeError raised
json_loads(text) ==
    CASE text = StopLine -> [raised |-> "", value |-> JsonObject([type |-> "Stop"])]
      [] text = NoTypeLine -> [raised |-> "", value |-> JsonObject([tool |-> "Bash"])]
      [] text = ArrayLine -> [raised |-> "", value |-> [json |-> "array"]]
      [] OTHER -> [raised |-> JSONDecodeError, value |-> [json |-> "none"]]

\* a task as asyncio.create_task returns it: scheduled, not yet run.  conn
\* lists the lines (as indexes of wire) written on the connection the task
\* opened last, read counts those it took from the reader, eof tells whether
\* the server closed the connection
NewTask == [pc |-> "created", conn |-> <<>>, read |-> 0, eof |-> FALSE]

\* a reader that gives the line received last
M_next_line(task) == task.conn[Len(task.conn)]

\* `async for line in reader`: the line after those already taken
next_line(task) == task.conn[task.read + 1]

\* a cancel that does nothing
M_cancel(task) == task

\* task.cancel(): CancelledError is thrown into the task where it waits
cancel(task) ==
    IF task.pc = "done" THEN task ELSE [task EXCEPT !.pc = "cancelling"]

\* task.done()
done(task) == task.pc = "done"

\* self._tasks[sid], as the task object
task_of(sid) == spawned[sid][tasks[sid]]

\* a scan that spawns a task for every socket it sees
M_may_spawn(sid) == TRUE

\* a scan that spawns tasks only for the sockets of live tmux sessions
M_may_spawn_live(sid) ==
    /\ sid \notin DOMAIN tasks \/ done(task_of(sid))
    /\ \E name \in Range(tmux) : session_id_of(name) = sid

\* line 69: `sid not in self._tasks or self._tasks[sid].done()`
may_spawn(sid) == sid \notin DOMAIN tasks \/ done(task_of(sid))

MonitorTask == <<"_monitor_loop", 0>>

\* logger.exception of line 81
MonitorError == "Error in hook monitor loop"

\* a loop that ends with the exception of a scan
M_after_exception == "done"

\* where _monitor_loop is after the except clause of lines 80-81: at the
\* sleep of line 82, inside the while
after_exception == "sleep"

\* a stop that awaits the listener tasks only
M_all_tasks ==
    {<<sid, tasks[sid]>> : sid \in DOMAIN tasks}

\* stop, lines 47-50: the tasks of self._tasks and the monitor task
all_tasks ==
    {<<sid, tasks[sid]>> : sid \in DOMAIN tasks}
        \cup (IF monitor_task # None THEN {MonitorTask} ELSE {})

\* whether a task of all_tasks has finished
finished(t) ==
    IF t = MonitorTask THEN monitor = "done" ELSE done(spawned[t[1]][t[2]])

\* asyncio.gather(*all_tasks, return_exceptions=...): the CancelledError the
\* tasks ended with is raised to the caller unless exceptions are returned
gather(aws, return_exceptions) ==
    IF return_exceptions \/ aws = {} THEN "" ELSE "CancelledError"

----------------------------------------------------------------------------
(* Operations *)

NoResponse == [op |-> "none"]

Init ==
    /\ state_cache = <<>>
    /\ sessions_file = <<>>
    /\ tmux = <<>>
    /\ response = NoResponse
    /\ file_state = "records"
    /\ connections = <<>>
    /\ lock = Unlocked
    /\ endpoint = [ws \in WebSockets |-> "none"]
    /\ broadcast = NoBroadcast
    /\ inbound = NoInbound
    /\ running = FALSE
    /\ monitor_task = None
    /\ monitor = "none"
    /\ tasks = <<>>
    /\ spawned = [sid \in SocketIds |-> <<>>]
    /\ sockets = {}
    /\ wire = <<>>
    /\ calls = <<>>
    /\ lifespan = "startup"
    /\ monitor_log = ""
    /\ bearer_token = ""
    /\ http = NoRequest

\* what list_sessions() gives its caller: the list, or the exception
list_sessions_response(order) ==
    IF list_sessions_raises(read_persisted, tmux)
    THEN [op |-> "list_sessions", raised |-> AttributeError, result |-> <<>>]
    ELSE IF sort_raises(collect_sessions(state_cache, read_persisted, tmux, order))
    THEN [op |-> "list_sessions", raised |-> TypeError, result |-> <<>>]
    ELSE [op |-> "list_sessions", raised |-> "",
          result |-> list_sessions(state_cache, read_persisted, tmux, order)]

\* what get_session(name) gives its caller: the detail, None, or the exception
get_session_response(name) ==
    IF get_session_raises(read_persisted, name)
    THEN [op |-> "get_session", name |-> name, raised |-> AttributeError,
          result |-> [found |-> FALSE]]
    ELSE [op |-> "get_session", name |-> name, raised |-> "",
          result |-> get_session(state_cache, read_persisted,
                                 session_exists(name), name)]

\* SessionRegistry.update_state(session_name, state)
UpdateState ==
    \E name \in SessionNames, state \in ClaudeState :
        /\ state_cache' = update_state(state_cache, name, state)
        /\ response' = NoResponse
        /\ UNCHANGED <<sessions_file, tmux>>
        /\ UNCHANGED <<file_state, authVars, wsVars, listenerVars>>

\* the Konsolai application writes or rewrites a record of sessions.json
WriteRecord ==
    \E name \in SessionNames, rec \in PersistedRecord :
        /\ sessions_file' = [n \in DOMAIN sessions_file \cup {name} |->
                                IF n = name THEN rec ELSE sessions_file[n]]
        /\ response' = NoResponse
        /\ UNCHANGED <<state_cache, tmux>>
        /\ UNCHANGED <<file_state, authVars, wsVars, listenerVars>>

\* the Konsolai application writes a record whose lastActivity carries no
\* UTC offset
WriteNaiveRecord ==
    \E name \in SessionNames, rec \in NaiveRecord :
        /\ sessions_file' = [n \in DOMAIN sessions_file \cup {name} |->
                                IF n = name THEN rec ELSE sessions_file[n]]
        /\ response' = NoResponse
        /\ UNCHANGED <<state_cache, tmux>>
        /\ UNCHANGED <<file_state, authVars, wsVars, listenerVars>>

\* the Konsolai application drops a record from sessions.json
RemoveRecord ==
    \E name \in DOMAIN sessions_file :
        /\ sessions_file' = [n \in DOMAIN sessions_file \ {name} |-> sessions_file[n]]
        /\ response' = NoResponse
        /\ UNCHANGED <<state_cache, tmux>>
        /\ UNCHANGED <<file_state, authVars, wsVars, listenerVars>>

\* a konsolai tmux session starts
TmuxNewSession ==
    \E name \in SessionNames \ Range(tmux) :
        /\ tmux' = Append(tmux, name)
        /\ response' = NoResponse
        /\ UNCHANGED <<state_cache, sessions_file>>
        /\ UNCHANGED <<file_state, authVars, wsVars, listenerVars>>

\* a konsolai tmux session ends
TmuxKillSession ==
    \E name \in Range(tmux) :
        /\ tmux' = SelectSeq(tmux, LAMBDA n : n # name)
        /\ response' = NoResponse
        /\ UNCHANGED <<state_cache, sessions_file>>
        /\ UNCHANGED <<file_state, authVars, wsVars, listenerVars>>

\* SessionRegistry.list_sessions()
ListSessions ==
    \E order \in KeyOrders(DOMAIN read_persisted) :
        /\ response' = list_sessions_response(order)
        /\ state_cache' = after_get(state_cache, Range(tmux))
        /\ UNCHANGED <<sessions_file, tmux>>
        /\ UNCHANGED <<file_state, authVars, wsVars, listenerVars>>

\* SessionRegistry.get_session(name)
GetSession ==
    \E name \in SessionNames :
        /\ response' = get_session_response(name)
        /\ state_cache' = after_get(state_cache, {name})
        /\ UNCHANGED <<sessions_file, tmux>>
        /\ UNCHANGED <<file_state, authVars, wsVars, listenerVars>>

\* HookListener hands one parsed line of the socket <session_id>.sock to
\* hook_event_handler
HookEvent ==
    \E session_id \in ShortIds, event \in HookEvents :
        \E resolved \in resolve_session_id(session_id) :
            LET out == hook_event_handler(state_cache, session_id, event, resolved)
            IN  /\ state_cache' = out.cache
                /\ response' = [op |-> "hook_event_handler",
                                session_id |-> session_id,
                                event |-> event,
                                resolved |-> resolved,
                                raised |-> out.raised,
                                session_name |-> out.session_name,
                                emitted |-> out.emitted]
                /\ UNCHANGED <<sessions_file, tmux>>
                /\ UNCHANGED <<file_state, authVars, wsVars, listenerVars>>

Next ==
    \/ UpdateState
    \/ WriteRecord
    \/ RemoveRecord
    \/ TmuxNewSession
    \/ TmuxKillSession
    \/ ListSessions
    \/ GetSession

Spec == Init /\ [][Next]_vars

\* the hook path: events arriving while sessions come and go
NextHooks ==
    \/ UpdateState
    \/ TmuxNewSession
    \/ TmuxKillSession
    \/ HookEvent

SpecHooks == Init /\ [][NextHooks]_vars

\* the hook handler as the only writer of the overlay, and the queries that
\* read it
NextReport ==
    \/ WriteRecord
    \/ TmuxNewSession
    \/ TmuxKillSession
    \/ HookEvent
    \/ ListSessions
    \/ GetSession

SpecReport == Init /\ [][NextReport]_vars

\* the registry listing records with and without a UTC offset
NextSort ==
    \/ WriteRecord
    \/ WriteNaiveRecord
    \/ TmuxNewSession
    \/ ListSessions

SpecSort == Init /\ [][NextSort]_vars

\* sessions.json is replaced by a file of another kind, or removed
SetFile ==
    \E kind \in FileStates :
        /\ file_state' = kind
        /\ response' = NoResponse
        /\ UNCHANGED <<state_cache, sessions_file, tmux>>
        /\ UNCHANGED <<authVars, wsVars, listenerVars>>

\* the registry read while sessions.json changes kind
NextStore ==
    \/ SetFile
    \/ UpdateState
    \/ TmuxNewSession
    \/ TmuxKillSession
    \/ ListSessions
    \/ GetSession

SpecStore == Init /\ [][NextStore]_vars

----------------------------------------------------------------------------
(* Operations of the application: its start and its REST routes *)

\* the service is started with a configuration: create_app(config) stores
\* it in app.state.config, and the registry and the connection manager of
\* the new process are empty
Configure ==
    \E token \in ConfiguredTokens :
        /\ lifespan = "startup"
        /\ bearer_token' = token
        /\ http' = NoRequest
        /\ state_cache' = <<>>
        /\ response' = NoResponse
        /\ connections' = <<>>
        /\ lock' = Unlocked
        /\ endpoint' = [ws \in WebSockets |-> "none"]
        /\ broadcast' = NoBroadcast
        /\ inbound' = NoInbound
        /\ UNCHANGED <<sessions_file, tmux, file_state, listenerVars>>

Routes ==
    {"GET /api/sessions", "GET /api/sessions/{name}",
     "POST /api/sessions/{name}/kill"}

\* a request to a route of routes/sessions.py: Depends(verify_token) runs
\* before the body of the route, and its HTTPException is the response
RestRequest ==
    \E route \in Routes, name \in SessionNames, creds \in Credentials :
        LET denied == verify_token(creds, bearer_token)
            path_name == IF route = "GET /api/sessions" THEN "" ELSE name
            answer(status, invoked) ==
                [route |-> route, name |-> path_name, creds |-> creds,
                 status |-> status, invoked |-> invoked]
        IN  /\ \/ /\ denied # 0
                  /\ http' = answer(denied, <<>>)
                  /\ UNCHANGED registryVars
               \/ /\ denied = 0
                  /\ route = "GET /api/sessions"
                  /\ \E order \in KeyOrders(DOMAIN read_persisted) :
                        LET out == list_sessions_response(order)
                        IN  /\ response' = out
                            /\ http' = answer(IF out.raised # "" THEN 500 ELSE 200,
                                              <<"registry.list_sessions">>)
                  /\ state_cache' = after_get(state_cache, Range(tmux))
                  /\ UNCHANGED <<sessions_file, tmux>>
               \/ /\ denied = 0
                  /\ route = "GET /api/sessions/{name}"
                  /\ LET out == get_session_response(name)
                     IN  /\ response' = out
                         /\ http' = answer(IF out.raised # "" THEN 500
                                           ELSE IF out.result.found THEN 200
                                           ELSE 404,
                                           <<"registry.get_session">>)
                  /\ state_cache' = after_get(state_cache, {name})
                  /\ UNCHANGED <<sessions_file, tmux>>
               \/ /\ denied = 0
                  /\ route = "POST /api/sessions/{name}/kill"
                  /\ tmux' = SelectSeq(tmux, LAMBDA n : n # name)
                  /\ response' = NoResponse
                  /\ http' = answer(IF session_exists(name) THEN 202 ELSE 502,
                                    <<"tmux.kill_session">>)
                  /\ UNCHANGED <<state_cache, sessions_file>>
            /\ UNCHANGED bearer_token
            /\ UNCHANGED <<file_state, wsVars, listenerVars>>

\* routes/vehicle.py

\* the values vehicle_session_limit is configured with; 5 is the default
LimitValues == {0, 1, 5, 6, 7, 10}

\* what list_sessions() returns to a vehicle route: n summaries, the k that
\* need attention first
SessionList(n, k) == [i \in 1..n |-> [id |-> i, needs_attention |-> i <= k]]

\* seq[:limit] with limit >= 0
slice_to(seq, limit) == SubSeq(seq, 1, IF limit < Len(seq) THEN limit ELSE Len(seq))

min(a, b) == IF a < b THEN a ELSE b

\* the template limit of Android Auto's list
AndroidAutoMax == 6

\* vehicle_dashboard, line 76: the summaries the cards are made of
vehicle_dashboard(sessions, limit) == slice_to(sessions, limit)

\* a list cut at the configured limit only
M_android_auto_sessions(sessions, limit) == slice_to(sessions, limit)

\* android_auto_sessions, lines 196-198: the summaries the items are made of
android_auto_sessions(sessions, limit) ==
    slice_to(sessions, min(limit, AndroidAutoMax))

VehicleRoutes ==
    {"GET /api/vehicle/dashboard", "GET /api/vehicle/android-auto/sessions"}

\* a request to a vehicle route that passes verify_token: the list of the
\* registry is cut to the limit of the configuration
VehicleRequest ==
    \E route \in VehicleRoutes, limit \in LimitValues :
        \E n \in 0..MaxSessions :
            \E k \in 0..n :
                /\ verify_token(NoCredentials, bearer_token) = 0
                /\ http' = [route |-> route, limit |-> limit,
                            sessions |-> SessionList(n, k),
                            shown |-> IF route = "GET /api/vehicle/dashboard"
                                      THEN vehicle_dashboard(SessionList(n, k), limit)
                                      ELSE android_auto_sessions(SessionList(n, k),
                                                                 limit)]
                /\ UNCHANGED <<registryVars, bearer_token>>
                /\ UNCHANGED <<file_state, wsVars, listenerVars>>

NextVehicle == VehicleRequest

SpecVehicle == Init /\ [][NextVehicle]_vars

\* the REST routes of a service started with or without a bearer token
NextRest ==
    \/ Configure
    \/ RestRequest
    \/ TmuxNewSession
    \/ UpdateState

SpecRest == Init /\ [][NextRest]_vars

----------------------------------------------------------------------------
(* Operations of the connection manager *)

\* websocket_endpoint, lines 71-76: the token check, which closes the
\* WebSocket with code 4001 and returns, or `await websocket.accept()` of
\* connect, line 28
WsAccept ==
    \E ws \in WebSockets :
        /\ endpoint[ws] = "none"
        /\ endpoint' = [endpoint EXCEPT ![ws] =
                            IF authorized(bearer_token, token_of(ws))
                            THEN "accepted" ELSE "closed_4001"]
        /\ UNCHANGED <<connections, lock, broadcast>>
        /\ UNCHANGED <<registryVars, file_state, authVars, listenerVars, inbound>>

\* connect, lines 29-30: the lock taken, the WebSocket appended
WsRegister ==
    \E ws \in WebSockets :
        /\ endpoint[ws] = "accepted"
        /\ lock = Unlocked
        /\ connections' = Append(connections, ws)
        /\ endpoint' = [endpoint EXCEPT ![ws] = "open"]
        /\ UNCHANGED <<lock, broadcast>>
        /\ UNCHANGED <<registryVars, file_state, authVars, listenerVars, inbound>>

\* websocket_endpoint, lines 84-89: the receive loop ends and the finally
\* clause calls disconnect
WsClose ==
    \E ws \in WebSockets :
        /\ endpoint[ws] = "open"
        /\ endpoint' = [endpoint EXCEPT ![ws] = "closing"]
        /\ UNCHANGED <<connections, lock, broadcast>>
        /\ UNCHANGED <<registryVars, file_state, authVars, listenerVars, inbound>>

\* websocket_endpoint, lines 79-87: receive_text returns a frame; a ping is
\* answered by a pong sent to the same WebSocket, and a send that raises
\* ends the loop as a receive that raises does
WsReceive ==
    \E ws \in WebSockets, data \in Frames, ok \in BOOLEAN :
        /\ endpoint[ws] = "open"
        /\ inbound' = [ws |-> ws, data |-> data,
                       replies |-> IF is_ping(data)
                                   THEN <<[to |-> ws, text |-> Pong, ok |-> ok]>>
                                   ELSE <<>>]
        /\ endpoint' = [endpoint EXCEPT ![ws] =
                            IF is_ping(data) /\ ~ok THEN "closing" ELSE @]
        /\ UNCHANGED <<connections, lock, broadcast>>
        /\ UNCHANGED <<registryVars, file_state, authVars, listenerVars>>

\* disconnect, lines 33-36: the lock taken, the WebSocket removed if listed;
\* the handler of the WebSocket is over, and an exception of disconnect would
\* be the one it ends with
WsUnregister ==
    \E ws \in WebSockets :
        /\ endpoint[ws] = "closing"
        /\ lock = Unlocked
        /\ connections' = disconnect(connections, ws).connections
        /\ endpoint' = [endpoint EXCEPT ![ws] =
                            IF disconnect(connections, ws).raised = ""
                            THEN "none" ELSE "raised"]
        /\ UNCHANGED <<lock, broadcast>>
        /\ UNCHANGED <<registryVars, file_state, authVars, listenerVars, inbound>>

\* broadcast(event) is called: the payload is serialized (line 40), the lock
\* is taken (line 42) and the first send_text is awaited (line 45); with no
\* connection the call returns at once
Broadcast ==
    \E event \in Envelopes :
        /\ broadcast.pc \in {"none", "returned", "cancelled"}
        /\ lock = Unlocked
        /\ LET frame == [pc |-> "send", event |-> event,
                         payload |-> model_dump_json(event),
                         i |-> for_next(connections, 0),
                         dead |-> <<>>, sends |-> <<>>, raised |-> ""]
           IN  IF frame.i = 0
               THEN /\ broadcast' = [frame EXCEPT !.pc = "returned"]
                    /\ UNCHANGED lock
               ELSE /\ broadcast' = frame
                    /\ lock' = "broadcast"
        /\ UNCHANGED <<connections, endpoint>>
        /\ UNCHANGED <<registryVars, file_state, authVars, listenerVars, inbound>>

\* the send_text awaited at line 45 ends, with or without an exception; the
\* loop goes on to the next connection, or ends: the dead are removed and
\* the lock is released (lines 48-49)
SendText ==
    \E ok \in BOOLEAN :
        /\ broadcast.pc = "send"
        /\ LET ws == connections[broadcast.i]
               sent == [broadcast EXCEPT
                           !.sends = Append(@, [ws |-> ws,
                                                payload |-> broadcast.payload,
                                                ok |-> ok]),
                           !.dead = IF ok THEN @ ELSE Append(@, ws)]
               next == for_next(connections, broadcast.i)
           IN  IF next = 0
               THEN /\ connections' = remove_dead(connections, sent.dead)
                    /\ lock' = Unlocked
                    /\ broadcast' = [sent EXCEPT !.pc = "returned", !.i = 0]
               ELSE /\ broadcast' = [sent EXCEPT !.i = next]
                    /\ UNCHANGED <<connections, lock>>
        /\ UNCHANGED endpoint
        /\ UNCHANGED <<registryVars, file_state, authVars, listenerVars, inbound>>

\* the task that called broadcast is cancelled while it waits in the
\* send_text of line 45: CancelledError is no Exception, so it leaves the
\* loop and the `async with`, lines 48-49 are not run, and broadcast raises
BroadcastCancelled ==
    /\ broadcast.pc = "send"
    /\ broadcast' = [broadcast EXCEPT !.pc = "cancelled", !.i = 0,
                                      !.raised = CancelledError]
    /\ lock' = aexit(lock)
    /\ UNCHANGED <<connections, endpoint>>
    /\ UNCHANGED <<registryVars, file_state, authVars, listenerVars, inbound>>

NextBroadcast ==
    \/ WsAccept
    \/ WsRegister
    \/ WsClose
    \/ WsUnregister
    \/ Broadcast
    \/ SendText

SpecBroadcast == Init /\ [][NextBroadcast]_vars

\* the hook handler next to the connection manager its envelopes go to
NextEmit ==
    \/ WsAccept
    \/ WsRegister
    \/ Broadcast
    \/ SendText
    \/ HookEvent

SpecEmit == Init /\ [][NextEmit]_vars

\* the connection manager when the callers of broadcast may be cancelled
NextCancel ==
    \/ WsAccept
    \/ WsRegister
    \/ WsClose
    \/ WsUnregister
    \/ Broadcast
    \/ SendText
    \/ BroadcastCancelled

SpecCancel == Init /\ [][NextCancel]_vars

\* the subscribers' handlers: clients connect, send frames and leave, while
\* the overlay is written
NextSubscriber ==
    \/ WsAccept
    \/ WsRegister
    \/ WsReceive
    \/ WsClose
    \/ WsUnregister
    \/ UpdateState

SpecSubscriber == Init /\ [][NextSubscriber]_vars

\* the connection manager of a service started with or without a bearer token
NextWsAuth ==
    \/ Configure
    \/ WsAccept
    \/ WsRegister
    \/ WsClose
    \/ WsUnregister
    \/ Broadcast
    \/ SendText

SpecWsAuth == Init /\ [][NextWsAuth]_vars

----------------------------------------------------------------------------
(* Operations of the hook listener *)

\* lifespan, line 97: `await hook_listener.start()`
Start ==
    /\ lifespan = "startup"
    /\ running' = TRUE
    /\ monitor_task' = "task"
    /\ monitor' = "created"
    /\ lifespan' = "serving"
    /\ UNCHANGED <<tasks, spawned, sockets, wire, calls>>
    /\ UNCHANGED <<registryVars, file_state, authVars, wsVars, monitor_log>>

\* a session's hook socket is created in the socket directory
SocketAppears ==
    \E sid \in SocketIds :
        /\ sid \notin sockets
        /\ sockets' = sockets \cup {sid}
        /\ UNCHANGED <<running, monitor_task, monitor, tasks, spawned, wire,
                       calls, lifespan>>
        /\ UNCHANGED <<registryVars, file_state, authVars, wsVars, monitor_log>>

\* a session's hook socket is removed
SocketDisappears ==
    \E sid \in SocketIds :
        /\ sid \in sockets
        /\ sockets' = sockets \ {sid}
        /\ UNCHANGED <<running, monitor_task, monitor, tasks, spawned, wire,
                       calls, lifespan>>
        /\ UNCHANGED <<registryVars, file_state, authVars, wsVars, monitor_log>>

\* the tasks of one scan: a new task for every socket that may have one
spawn_all(current_sockets) ==
    [sid \in SocketIds |->
        IF sid \in current_sockets /\ may_spawn(sid)
        THEN Append(spawned[sid], NewTask)
        ELSE spawned[sid]]

\* one round of _monitor_loop, lines 60-82, from the test of the while to
\* the sleep: tasks for new sockets, then the entries of finished tasks
\* whose socket is gone deleted; a glob that raises leaves all as it is and
\* is logged by the except clause
\* a clean-up that drops the entry of every socket that is gone
M_dead(current_sockets) == DOMAIN tasks \ current_sockets

\* the ids whose entries the scan deletes (lines 75-79): those whose task is
\* done and whose socket is not in the directory
dead(current_sockets) ==
    {sid \in DOMAIN tasks \ current_sockets : done(task_of(sid))}

Scan ==
    \E glob_raises \in BOOLEAN :
        /\ monitor \in {"created", "sleep"}
        /\ monitor_log' = IF running /\ glob_raises THEN MonitorError ELSE ""
        /\ IF ~running
           THEN /\ monitor' = "done"
                /\ UNCHANGED <<tasks, spawned>>
           ELSE /\ monitor' = IF glob_raises THEN after_exception ELSE "sleep"
                /\ IF glob_raises
                   THEN UNCHANGED <<tasks, spawned>>
                   ELSE LET current_sockets == sockets
                            started == {sid \in current_sockets : may_spawn(sid)}
                            kept == (DOMAIN tasks \cup started) \ dead(current_sockets)
                        IN  /\ \A sid \in started : Len(spawned[sid]) < MaxSpawns
                            /\ spawned' = spawn_all(current_sockets)
                            /\ tasks' = [sid \in kept |->
                                            IF sid \in started
                                            THEN Len(spawned[sid]) + 1
                                            ELSE tasks[sid]]
        /\ UNCHANGED <<running, monitor_task, sockets, wire, calls, lifespan>>
        /\ UNCHANGED <<registryVars, file_state, authVars, wsVars>>

\* _listen_socket, lines 87-89 and 109-110: a task that starts, or whose
\* sleep is over, tests the while and opens the connection; the file may be
\* missing, or nobody may listen on it
Connect ==
    \E sid \in SocketIds :
        \E k \in DOMAIN spawned[sid], refused \in BOOLEAN :
            /\ spawned[sid][k].pc \in {"created", "sleep"}
            /\ spawned' =
                  [spawned EXCEPT ![sid][k] =
                      IF ~running
                      THEN [@ EXCEPT !.pc = "done"]
                      ELSE IF sid \notin sockets \/ refused
                      THEN [@ EXCEPT !.pc = "sleep"]
                      ELSE [pc |-> "reading", conn |-> <<>>, read |-> 0,
                            eof |-> FALSE]]
            /\ UNCHANGED <<running, monitor_task, monitor, tasks, sockets,
                           wire, calls, lifespan>>
            /\ UNCHANGED <<registryVars, file_state, authVars, wsVars, monitor_log>>

\* the server of a hook socket writes a line on a connection
ServerWrite ==
    \E sid \in SocketIds, text \in Lines :
        \E k \in DOMAIN spawned[sid] :
            /\ spawned[sid][k].pc = "reading"
            /\ ~spawned[sid][k].eof
            /\ Len(wire) < MaxLines
            /\ wire' = Append(wire, [session_id |-> sid, text |-> text])
            /\ spawned' = [spawned EXCEPT
                              ![sid][k].conn = Append(@, Len(wire) + 1)]
            /\ UNCHANGED <<running, monitor_task, monitor, tasks, sockets,
                           calls, lifespan>>
            /\ UNCHANGED <<registryVars, file_state, authVars, wsVars, monitor_log>>

\* the server of a hook socket closes a connection
ServerClose ==
    \E sid \in SocketIds :
        \E k \in DOMAIN spawned[sid] :
            /\ spawned[sid][k].pc = "reading"
            /\ ~spawned[sid][k].eof
            /\ spawned' = [spawned EXCEPT ![sid][k].eof = TRUE]
            /\ UNCHANGED <<running, monitor_task, monitor, tasks, sockets,
                           wire, calls, lifespan>>
            /\ UNCHANGED <<registryVars, file_state, authVars, wsVars, monitor_log>>

\* _listen_socket, lines 90-108: the next line of the reader.  An empty line
\* is skipped; a line json.loads rejects is logged; any other is parsed and
\* handed to the callback.  What the callback raises is not a
\* JSONDecodeError: it leaves the `async for` and is caught at line 107, and
\* the task sleeps before it opens a new connection
\* a task that logs the exception of the callback and goes on with the next
\* line of the connection
M_callback_raised(task) == [task EXCEPT !.read = @ + 1]

\* the callback awaited at line 97 raises something that is no
\* JSONDecodeError: the exception leaves the `async for` and is caught at
\* line 107, and the task is at the sleep of line 110 with the connection
\* and the lines it had not read yet left behind
callback_raised(task) == [task EXCEPT !.pc = "sleep", !.read = @ + 1]

ReadLine ==
    \E sid \in SocketIds :
        \E k \in DOMAIN spawned[sid] :
            \E resolved \in resolve_session_id(sid) :
                LET task == spawned[sid][k]
                    n == next_line(task)
                    line_str == strip(wire[n].text)
                    parsed == json_loads(line_str)
                    out == hook_event_handler(state_cache, sid, parsed.value,
                                              resolved)
                    called == line_str # "" /\ parsed.raised = ""
                IN  /\ task.pc = "reading"
                    /\ task.read < Len(task.conn)
                    /\ IF called
                       THEN /\ calls' = Append(calls,
                                               [session_id |-> sid, n |-> n,
                                                raised |-> out.raised,
                                                emitted |-> out.emitted])
                            /\ state_cache' = out.cache
                       ELSE UNCHANGED <<calls, state_cache>>
                    /\ spawned' =
                          [spawned EXCEPT ![sid][k] =
                              IF called /\ out.raised # ""
                              THEN callback_raised(@)
                              ELSE [@ EXCEPT !.read = @ + 1]]
                    /\ UNCHANGED <<running, monitor_task, monitor, tasks,
                                   sockets, wire, lifespan>>
                    /\ UNCHANGED <<sessions_file, tmux, response>>
                    /\ UNCHANGED <<file_state, authVars, wsVars, monitor_log>>

\* _listen_socket, lines 103-104 and 109-110: the reader is at its end, the
\* writer is closed and the task sleeps before it connects again
StreamEnd ==
    \E sid \in SocketIds :
        \E k \in DOMAIN spawned[sid] :
            /\ spawned[sid][k].pc = "reading"
            /\ spawned[sid][k].eof
            /\ spawned[sid][k].read = Len(spawned[sid][k].conn)
            /\ spawned' = [spawned EXCEPT ![sid][k].pc =
                              IF running THEN "sleep" ELSE "done"]
            /\ UNCHANGED <<running, monitor_task, monitor, tasks, sockets,
                           wire, calls, lifespan>>
            /\ UNCHANGED <<registryVars, file_state, authVars, wsVars, monitor_log>>

\* lifespan, line 104, and stop, lines 46-54: the flag is cleared, the monitor
\* task and every task of self._tasks are cancelled, and stop waits in gather
StopBegin ==
    /\ lifespan = "serving"
    /\ running' = FALSE
    /\ monitor' = IF monitor_task # None /\ monitor # "done"
                  THEN "cancelling" ELSE monitor
    /\ spawned' = [sid \in SocketIds |->
                      [k \in DOMAIN spawned[sid] |->
                          IF sid \in DOMAIN tasks /\ tasks[sid] = k
                          THEN cancel(spawned[sid][k])
                          ELSE spawned[sid][k]]]
    /\ lifespan' = "stopping"
    /\ UNCHANGED <<monitor_task, tasks, sockets, wire, calls>>
    /\ UNCHANGED <<registryVars, file_state, authVars, wsVars, monitor_log>>

\* a cancelled task runs again: CancelledError ends it, as no except clause
\* of _listen_socket or _monitor_loop catches it
Cancelled ==
    \E t \in {MonitorTask} \cup (SocketIds \X (1..MaxSpawns)) :
        IF t = MonitorTask
        THEN /\ monitor = "cancelling"
             /\ monitor' = "done"
             /\ UNCHANGED <<running, monitor_task, tasks, spawned, sockets,
                            wire, calls, lifespan>>
             /\ UNCHANGED <<registryVars, file_state, authVars, wsVars, monitor_log>>
        ELSE /\ t[2] \in DOMAIN spawned[t[1]]
             /\ spawned[t[1]][t[2]].pc = "cancelling"
             /\ spawned' = [spawned EXCEPT ![t[1]][t[2]].pc = "done"]
             /\ UNCHANGED <<running, monitor_task, monitor, tasks, sockets,
                            wire, calls, lifespan>>
             /\ UNCHANGED <<registryVars, file_state, authVars, wsVars, monitor_log>>

\* stop, lines 54-56: gather returns once every task of all_tasks has
\* finished; the bookkeeping is cleared and stop returns
StopEnd ==
    /\ lifespan = "stopping"
    /\ \A t \in all_tasks : finished(t)
    /\ IF gather(all_tasks, TRUE) # ""
       THEN /\ lifespan' = "stop_raised"
            /\ UNCHANGED <<tasks, monitor_task>>
       ELSE /\ lifespan' = "stopped"
            /\ tasks' = <<>>
            /\ monitor_task' = None
    /\ UNCHANGED <<running, monitor, spawned, sockets, wire, calls>>
    /\ UNCHANGED <<registryVars, file_state, authVars, wsVars, monitor_log>>

\* the life of the listener, from start to stop: sockets come and go, tasks
\* connect and lose their connections
NextListener ==
    \/ Start
    \/ SocketAppears
    \/ SocketDisappears
    \/ Scan
    \/ Connect
    \/ ServerClose
    \/ StreamEnd
    \/ StopBegin
    \/ Cancelled
    \/ StopEnd

SpecListener == Init /\ [][NextListener]_vars

\* the event loop runs every task that is ready: a cancelled task gets its
\* CancelledError, and gather returns when all its tasks have finished
SpecListenerFair ==
    SpecListener /\ WF_vars(Cancelled) /\ WF_vars(StopEnd)

\* the watcher while tmux sessions come and go
NextDiscovery ==
    \/ Start
    \/ SocketAppears
    \/ SocketDisappears
    \/ Scan
    \/ Connect
    \/ ServerClose
    \/ StreamEnd
    \/ TmuxNewSession
    \/ TmuxKillSession

SpecDiscovery == Init /\ [][NextDiscovery]_vars

\* the listener at work: lines written on the connections, read and handed
\* to hook_event_handler
NextIngest ==
    \/ Start
    \/ SocketAppears
    \/ SocketDisappears
    \/ Scan
    \/ Connect
    \/ ServerWrite
    \/ ServerClose
    \/ ReadLine
    \/ StreamEnd

SpecIngest == Init /\ [][NextIngest]_vars

\* the event loop runs every task that is ready and every sleep ends: the
\* monitor scans again, and a task connects, takes the line that is there,
\* or leaves a stream that has ended
SpecIngestFair ==
    /\ SpecIngest
    /\ WF_vars(Scan)
    /\ WF_vars(Connect)
    /\ WF_vars(ReadLine)
    /\ WF_vars(StreamEnd)

\* the tasks reading their connections, with sockets that stay in place
NextOrder ==
    \/ Start
    \/ SocketAppears
    \/ Scan
    \/ Connect
    \/ ServerWrite
    \/ ReadLine

SpecOrder == Init /\ [][NextOrder]_vars

----------------------------------------------------------------------------
(* Properties of the session registry, checked under Spec *)

Listed == response.op = "list_sessions" /\ response.raised = ""
Got == response.op = "get_session" /\ response.raised = ""

\* the names of sessions.json that the live list lacks
PersistedOnly == DOMAIN sessions_file \ Range(tmux)

EntriesOf(name) ==
    {i \in DOMAIN response.result : response.result[i].name = name}

\* C1: every name that sessions.json holds and the live list lacks is
\* reported by list_sessions() as not_running with needs_attention false,
\* whatever update_state wrote for it before.
C1_PersistedOnlyNotRunning ==
    Listed =>
        \A name \in PersistedOnly :
            /\ EntriesOf(name) # {}
            /\ \A i \in EntriesOf(name) :
                  /\ response.result[i].state = NOT_RUNNING
                  /\ response.result[i].needs_attention = FALSE

C1_Witness ==
    /\ Listed
    /\ \E name \in PersistedOnly :
          /\ name \in DOMAIN state_cache
          /\ state_cache[name] = WAITING_INPUT
          /\ sessions_file[name].state = "Error"
          /\ EntriesOf(name) # {}

AttentionMatchesState(s) ==
    s.needs_attention <=> (s.state = WAITING_INPUT \/ s.state = ERROR)

\* C3: in every summary of list_sessions() and every detail of
\* get_session(), needs_attention is true exactly when the state is
\* waiting_input or error.
C3_NeedsAttentionIffWaitingOrError ==
    /\ Listed =>
          \A i \in DOMAIN response.result : AttentionMatchesState(response.result[i])
    /\ (Got /\ response.result.found) => AttentionMatchesState(response.result)

C3_Witness ==
    /\ Listed
    /\ \E i, j \in DOMAIN response.result :
          /\ response.result[i].name \in Range(tmux)
          /\ response.result[i].state = ERROR
          /\ response.result[i].needs_attention
          /\ response.result[j].name \in Range(tmux)
          /\ response.result[j].state = IDLE
          /\ ~response.result[j].needs_attention

\* C4: with names unique in the live list and in sessions.json,
\* list_sessions() has exactly one entry for each name of either source and
\* no other entry, and no entry that needs attention comes after one that
\* does not.
C4_OneEntryPerNameAttentionFirst ==
    Listed =>
        LET r == response.result
            known == DOMAIN sessions_file \cup Range(tmux)
        IN  /\ {r[i].name : i \in DOMAIN r} = known
            /\ Len(r) = Cardinality(known)
            /\ \A i, j \in DOMAIN r :
                  (i < j /\ r[j].needs_attention) => r[i].needs_attention

C4_Witness ==
    /\ Listed
    /\ Len(tmux) = 2
    /\ Len(response.result) = 2
    /\ tmux[1] \in DOMAIN sessions_file
    /\ response.result[1].name = tmux[2]
    /\ response.result[1].needs_attention
    /\ ~response.result[2].needs_attention

\* the state a known "state" string of sessions.json stands for
KnownStateStrings ==
    {"NotRunning", "Starting", "Idle", "Working", "WaitingInput",
     "WaitingForInput", "Error"}

StateNamed(raw) ==
    CASE raw = "NotRunning" -> "not_running"
      [] raw = "Starting" -> "starting"
      [] raw = "Idle" -> "idle"
      [] raw = "Working" -> "working"
      [] raw \in {"WaitingInput", "WaitingForInput"} -> "waiting_input"
      [] raw = "Error" -> "error"

ExpectedLiveState(name) ==
    IF name \in DOMAIN state_cache
    THEN state_cache[name]
    ELSE IF name \in DOMAIN sessions_file
            /\ sessions_file[name].state \in KnownStateStrings
         THEN StateNamed(sessions_file[name].state)
         ELSE "not_running"

\* C5: for a live name, list_sessions() and get_session() report the
\* overlay value when the overlay has an entry for the name, else the state
\* the record's "state" string names when there is a record and the string
\* is a known one, else not_running.
C5_LiveStatePrecedence ==
    /\ Listed =>
          \A i \in DOMAIN response.result :
              response.result[i].name \in Range(tmux) =>
                  response.result[i].state = ExpectedLiveState(response.result[i].name)
    /\ (Got /\ response.name \in Range(tmux)) =>
          /\ response.result.found
          /\ response.result.state = ExpectedLiveState(response.name)

C5_Witness ==
    /\ Listed
    /\ \E i, j \in DOMAIN response.result :
          LET a == response.result[i].name
              b == response.result[j].name
          IN  /\ {a, b} \subseteq Range(tmux)
              /\ {a, b} \subseteq DOMAIN sessions_file
              /\ a \in DOMAIN state_cache
              /\ state_cache[a] = IDLE
              /\ sessions_file[a].state = "Error"
              /\ response.result[i].state = IDLE
              /\ b \notin DOMAIN state_cache
              /\ sessions_file[b].state = "WaitingForInput"
              /\ response.result[j].state = WAITING_INPUT

----------------------------------------------------------------------------
(* Properties of the hook event handler, checked under SpecHooks *)

Handled == response.op = "hook_event_handler"

EventType == dict_get(response.event.items, "type", "")

SpecificTypes == {"Stop", "PreToolUse", "PostToolUse", "Notification"}

\* the envelopes of the last event that forward it generically
GenericEnvelopes ==
    {i \in DOMAIN response.emitted :
        /\ response.emitted[i].type = "notification"
        /\ DOMAIN response.emitted[i].data = {"hook_event", "raw"}
        /\ response.emitted[i].data.hook_event = EventType
        /\ response.emitted[i].data.raw = response.event.items}

\* the session names that tmux or sessions.json know with this short id
KnownNamesOf(session_id) ==
    {n \in Range(tmux) \cup DOMAIN sessions_file : session_id_of(n) = session_id}

\* C6: every hook event handed to the handler has exactly one generic
\* notification envelope {hook_event: type, raw: event} broadcast, and one
\* more envelope exactly when its type is Stop, PreToolUse, PostToolUse or
\* Notification; for Stop the two are state_changed {state: idle} and then
\* the generic notification.
C6_EnvelopesPerEvent ==
    Handled =>
        /\ Cardinality(GenericEnvelopes) = 1
        /\ Len(response.emitted) = IF EventType \in SpecificTypes THEN 2 ELSE 1
        /\ EventType = "Stop" =>
              /\ response.emitted[1].type = "state_changed"
              /\ response.emitted[1].data = [state |-> "idle"]
              /\ GenericEnvelopes = {2}

\* C7: once a Stop event is handled the overlay entry of the session the
\* short id stands for is idle, and once a PreToolUse event is handled it is
\* working.
C7_StopIdlePreToolUseWorking ==
    (Handled /\ EventType \in {"Stop", "PreToolUse"}) =>
        \E name \in DOMAIN state_cache :
            /\ name \in KnownNamesOf(response.session_id) \cup {response.session_id}
            /\ state_cache[name] = IF EventType = "Stop" THEN "idle" ELSE "working"

\* C8: handling a PostToolUse event, a Notification event or an event of an
\* unrecognized type changes no entry of the overlay, and its envelopes are
\* broadcast all the same.
C8_OtherEventsLeaveOverlay ==
    [][(HookEvent /\ dict_get(response'.event.items, "type", "") \notin {"Stop", "PreToolUse"}) =>
          /\ state_cache' = state_cache
          /\ Len(response'.emitted) =
                IF dict_get(response'.event.items, "type", "") \in SpecificTypes
                THEN 2 ELSE 1]_vars

\* C9: an event whose short id no known session has is not dropped: the
\* handler takes the short id itself as the session name, writes the overlay
\* under it when the type calls for a write, and broadcasts its envelopes
\* with that name.
C9_UnresolvedIdFallsBack ==
    (Handled /\ KnownNamesOf(response.session_id) = {}) =>
        /\ response.raised = ""
        /\ response.session_name = response.session_id
        /\ response.emitted # <<>>
        /\ \A i \in DOMAIN response.emitted :
              response.emitted[i].session_name = response.session_id
        /\ EventType = "Stop" =>
              /\ response.session_id \in DOMAIN state_cache
              /\ state_cache[response.session_id] = "idle"

\* C10: resolve_session_id(short id) returns a known session name whose
\* last dash-delimited segment is the short id, returns none when no known
\* name ends so, and never fails.
C10_ResolveSessionId ==
    Handled =>
        /\ response.resolved.raised = ""
        /\ IF KnownNamesOf(response.session_id) = {}
           THEN response.resolved.value = ""
           ELSE response.resolved.value \in KnownNamesOf(response.session_id)

----------------------------------------------------------------------------
(* More properties of the session registry *)

C20_BadStoreReadsAsEmpty ==
    file_state # "records" =>
        /\ response.op \in {"list_sessions", "get_session"} => response.raised = ""
        /\ Listed =>
              response.result = list_sessions(state_cache, <<>>, tmux, <<>>)
        /\ Got =>
              response.result =
                  get_session(state_cache, <<>>, session_exists(response.name),
                              response.name)

----------------------------------------------------------------------------
(* Properties of the connection manager, under SpecBroadcast *)

\* the step in which a call of broadcast returns
BroadcastReturns == broadcast' # broadcast /\ broadcast'.pc = "returned"

\* the connections whose send_text raised in the call that returns
FailedSends ==
    {broadcast'.sends[j].ws :
        j \in {k \in DOMAIN broadcast'.sends : ~broadcast'.sends[k].ok}}

\* C11: when the send to some subscribers fails, every connection of the
\* list is still sent the payload (those after a failure too), broadcast
\* returns without raising, and exactly the connections whose send failed
\* have left the list when it returns.
C11_FailedSendsIsolated ==
    [][BroadcastReturns =>
          /\ Len(broadcast'.sends) = Len(connections)
          /\ \A j \in DOMAIN connections :
                /\ broadcast'.sends[j].ws = connections[j]
                /\ broadcast'.sends[j].payload = broadcast'.payload
          /\ broadcast'.raised = ""
          /\ Range(connections') = Range(connections) \ FailedSends
          /\ connections' = SelectSeq(connections,
                                      LAMBDA ws : ws \in Range(connections'))]_vars

C11_Witness ==
    /\ broadcast.pc = "returned"
    /\ Len(broadcast.sends) = 3
    /\ ~broadcast.sends[1].ok
    /\ broadcast.sends[2].ok
    /\ broadcast.sends[3].ok
    /\ connections = <<broadcast.sends[2].ws, broadcast.sends[3].ws>>

\* C12: while broadcast is suspended in a send_text, the lock of the
\* connection list is not held (so that connect and disconnect can go
\* through before the send ends).
C12_LockFreeDuringSend ==
    broadcast.pc = "send" => lock = Unlocked

\* C13: a broadcast serializes its event once and sends that one payload to
\* every connection that is in the list when the broadcast takes it,
\* whatever the type and the session name of the event; the list does not
\* change between the moment it is taken and the last send.
C13_SamePayloadToEveryone ==
    [][/\ BroadcastReturns =>
             /\ Len(broadcast'.sends) = Len(connections)
             /\ \A j \in DOMAIN connections :
                   /\ broadcast'.sends[j].ws = connections[j]
                   /\ broadcast'.sends[j].payload =
                          model_dump_json(broadcast'.event)
       /\ (broadcast.pc = "send" /\ broadcast'.pc = "send") =>
             connections' = connections]_vars

C13_Witness ==
    /\ broadcast.pc = "returned"
    /\ broadcast.event.type = NOTIFICATION
    /\ Len(broadcast.sends) = 3
    /\ \A j \in DOMAIN broadcast.sends : broadcast.sends[j].ok
    /\ \E ws \in WebSockets : endpoint[ws] = "closing"

----------------------------------------------------------------------------
(* Properties of the hook listener, under SpecListener *)

\* the tasks created for a socket id that have not finished
ActiveTasks(sid) == {k \in DOMAIN spawned[sid] : ~done(spawned[sid][k])}

\* C14: once stop() has returned, every task the listener created (the
\* listener tasks and the monitor task) has finished, self._tasks is empty
\* and self._monitor_task is None; stop() never raises on account of the
\* cancellations.
C14_NoTaskSurvivesStop ==
    /\ lifespan # "stop_raised"
    /\ lifespan = "stopped" =>
          /\ \A sid \in SocketIds : ActiveTasks(sid) = {}
          /\ monitor = "done"
          /\ tasks = <<>>
          /\ monitor_task = None

C14_Witness ==
    /\ lifespan = "stopped"
    /\ \A sid \in SocketIds : Len(spawned[sid]) = 1
    /\ \E sid \in SocketIds : spawned[sid][1].eof
    /\ sockets # SocketIds

\* C15: at every moment at most one task that has not finished exists per
\* socket id, and a scan creates a task for an id only when self._tasks has
\* no entry for it or the task it holds has finished.
C15_OneActiveTaskPerSocket ==
    /\ [](\A sid \in SocketIds : Cardinality(ActiveTasks(sid)) <= 1)
    /\ [][\A sid \in SocketIds :
             Len(spawned'[sid]) > Len(spawned[sid]) =>
                 sid \notin DOMAIN tasks \/ done(task_of(sid))]_vars

C15_Witness ==
    /\ monitor = "sleep"
    /\ sockets = SocketIds
    /\ \A sid \in SocketIds : Cardinality(ActiveTasks(sid)) = 1
    /\ \E sid \in SocketIds : spawned[sid][1].pc = "sleep"
    /\ \E sid \in SocketIds : spawned[sid][1].pc = "reading"

----------------------------------------------------------------------------
(* Properties of the ingestion of lines, under SpecIngest *)

\* line n of wire reaches json.loads and is parsed
IsJson(n) ==
    strip(wire[n].text) # "" /\ json_loads(strip(wire[n].text)).raised = ""

\* line n of wire reaches json.loads and is rejected
IsGarbage(n) ==
    strip(wire[n].text) # "" /\ json_loads(strip(wire[n].text)).raised # ""

\* line n of wire is a JSON object
IsObject(n) ==
    IsJson(n) /\ json_loads(strip(wire[n].text)).value.json = "object"

\* line n of wire is a JSON object with a string `type`
IsEvent(n) ==
    IsObject(n) /\ "type" \in DOMAIN json_loads(strip(wire[n].text)).value.items

\* the lines handed to the callback for a socket id, in the order of the calls
CalledFor(sid) ==
    LET mine == SelectSeq(calls, LAMBDA c : c.session_id = sid)
    IN  [i \in DOMAIN mine |-> mine[i].n]

\* the JSON objects written to the connections of a socket id, in order
ObjectsFor(sid) ==
    SelectSeq([n \in DOMAIN wire |-> n],
              LAMBDA n : wire[n].session_id = sid /\ IsObject(n))

\* every JSON value written to the connections of a socket id is an object
OnlyObjects(sid) ==
    \A n \in DOMAIN wire : (wire[n].session_id = sid /\ IsJson(n)) => IsObject(n)

\* the task of a socket id has nothing left to read: it waits for a line
\* with none written, or it sleeps before it connects again
Drained(sid) ==
    /\ sid \in DOMAIN tasks
    /\ \/ task_of(sid).pc = "sleep"
       \/ task_of(sid).pc = "reading" /\ task_of(sid).read = Len(task_of(sid).conn)

\* C16: across the end of a connection and the reconnection that follows
\* the delay, the lines written before and after reach the handler once
\* each, in the order they were written.
C16_EachLineOnceInOrder ==
    \A sid \in SocketIds :
        (Drained(sid) /\ OnlyObjects(sid)) => CalledFor(sid) = ObjectsFor(sid)

\* C17: a line that is not JSON is not handed to the handler and does not
\* end the stream: the valid lines that follow it on the connection are
\* handed to the handler.
C17_GarbageLineSkipped ==
    /\ \A i \in DOMAIN calls : ~IsGarbage(calls[i].n)
    /\ \A sid \in SocketIds :
          (Drained(sid) /\ OnlyObjects(sid)) =>
              \A i, j \in DOMAIN task_of(sid).conn :
                  (/\ i < j
                   /\ IsGarbage(task_of(sid).conn[i])
                   /\ IsObject(task_of(sid).conn[j]))
                      => task_of(sid).conn[j] \in Range(CalledFor(sid))

\* C18: a line that parses as JSON but is not an object with a string
\* `type` is dropped: no overlay write, no envelope, and the task goes on
\* reading the lines that follow on the connection.
C18_NonEventDropped ==
    [][\A sid \in SocketIds :
          \A k \in DOMAIN spawned[sid] :
              (/\ spawned[sid][k].pc = "reading"
               /\ spawned'[sid][k].read = spawned[sid][k].read + 1
               /\ IsJson(spawned[sid][k].conn[spawned'[sid][k].read])
               /\ ~IsEvent(spawned[sid][k].conn[spawned'[sid][k].read]))
                  => /\ state_cache' = state_cache
                     /\ \A i \in DOMAIN calls' \ DOMAIN calls :
                           calls'[i].emitted = <<>>
                     /\ spawned'[sid][k].pc = "reading"]_vars

----------------------------------------------------------------------------
(* Properties of the overlay *)

\* C21: update_state(name, state) sets the entry of name to state whatever
\* it held, a second identical call changes nothing more, and no entry of
\* another name changes: in every reachable overlay for every call, and in
\* every step that changes the overlay.
C21_UpdateStateOverwrites ==
    /\ [](\A name \in SessionNames, state \in ClaudeState :
             LET once == update_state(state_cache, name, state)
             IN  /\ once[name] = state
                 /\ update_state(once, name, state) = once
                 /\ DOMAIN once = DOMAIN state_cache \cup {name}
                 /\ \A n \in DOMAIN state_cache \ {name} : once[n] = state_cache[n])
    /\ [][state_cache' # state_cache =>
             \E name \in SessionNames :
                 /\ DOMAIN state_cache' = DOMAIN state_cache \cup {name}
                 /\ \A n \in DOMAIN state_cache \ {name} :
                       state_cache'[n] = state_cache[n]]_vars

C21_Witness ==
    /\ DOMAIN state_cache = SessionNames
    /\ state_cache["konsolai-Default-a1b2c3d4"] = ERROR
    /\ state_cache["konsolai-Dev-e5f6a7b8"] = IDLE
    /\ response = NoResponse

----------------------------------------------------------------------------
(* Properties of the token checks *)

\* C22: with a non-empty configured secret, a WebSocket whose token differs
\* from it is closed with code 4001 and never accepted, never in the
\* connection list and never sent a payload; with an empty configured
\* secret no WebSocket is refused, whatever its token.
C22_WebSocketTokenChecked ==
    /\ \A ws \in WebSockets :
          (bearer_token # "" /\ token_of(ws) # bearer_token) =>
              /\ endpoint[ws] \in {"none", "closed_4001"}
              /\ ws \notin Range(connections)
              /\ \A j \in DOMAIN broadcast.sends : broadcast.sends[j].ws # ws
    /\ bearer_token = "" =>
          \A ws \in WebSockets : endpoint[ws] # "closed_4001"

C22_Witness ==
    /\ bearer_token = "s3cret"
    /\ endpoint["ws1"] = "open"
    /\ endpoint["ws2"] = "closed_4001"
    /\ endpoint["ws3"] = "closed_4001"
    /\ connections = <<"ws1">>
    /\ broadcast.pc = "returned"
    /\ Len(broadcast.sends) = 1

\* the request that http answers was refused by verify_token
Refused == http.route # "none" /\ http.status = HTTP_401_UNAUTHORIZED

\* C23: a request to a session route is answered 401 exactly when the
\* configured bearer token is not empty and the request carries no
\* credentials or other credentials; a request answered 401 has invoked no
\* operation of the registry or of tmux, and the step that answers 401
\* leaves the overlay, the tmux sessions and the registry's last answer as
\* they were.
C23_RestTokenChecked ==
    /\ [](http.route # "none" =>
             /\ Refused <=> (bearer_token # "" /\ http.creds # bearer_token)
             /\ Refused => http.invoked = <<>>
             /\ ~Refused => Len(http.invoked) = 1)
    /\ [][(http' # http /\ Refused') => UNCHANGED registryVars]_vars

C23_Witness ==
    /\ bearer_token = "s3cret"
    /\ Refused
    /\ http.route = "POST /api/sessions/{name}/kill"
    /\ http.creds = "wrong"
    /\ http.name \in Range(tmux)
    /\ state_cache # <<>>

----------------------------------------------------------------------------
(* Properties of the discovery loop and of the ingestion tasks *)

\* C24: after a scan that ran to its end, every socket of the directory has
\* an entry in _tasks whose task is not done, and the scan created that task
\* when the socket had none or a finished one; whether tmux has a session
\* for the id plays no part.
C24_EndpointDrivenDiscovery ==
    [][(Scan /\ running /\ monitor_log' = "") =>
          \A sid \in sockets :
              /\ sid \in DOMAIN tasks'
              /\ ~done(spawned'[sid][tasks'[sid]])
              /\ may_spawn(sid) =>
                    /\ tasks'[sid] = Len(spawned[sid]) + 1
                    /\ spawned'[sid][tasks'[sid]] = NewTask]_vars

C24_Witness ==
    /\ running
    /\ sockets = SocketIds
    /\ tmux = <<"konsolai-Dev-e5f6a7b8">>
    /\ "a1b2c3d4" \in DOMAIN tasks
    /\ task_of("a1b2c3d4").pc = "reading"
    /\ "e5f6a7b8" \in DOMAIN tasks

\* every ingestion task created so far has finished
AllTasksDone ==
    \A sid \in SocketIds : \A k \in DOMAIN spawned[sid] : done(spawned[sid][k])

\* C27: while the watcher is running, a task whose connect fails (socket
\* file missing, or connection refused) or whose stream ends goes to its
\* sleep, from which it connects again, and no task ends; once the running
\* flag is cleared no task connects or sleeps any more: the only step a task
\* still takes is its end, and every task does end.
C27_RetryWhileRunning ==
    /\ [][\A sid \in SocketIds : \A k \in DOMAIN spawned[sid] :
             LET before == spawned[sid][k]
                 after == spawned'[sid][k]
             IN  /\ (running /\ running' /\ after.pc # before.pc) =>
                        /\ after.pc \in {"sleep", "reading"}
                        /\ before.pc = "reading" => after.pc = "sleep"
                        /\ sid \notin sockets => after.pc = "sleep"
                 /\ (~running /\ after # before) => after.pc = "done"]_vars
    /\ [](\A sid \in SocketIds : \A k \in DOMAIN spawned[sid] :
             (running /\ spawned[sid][k].pc = "sleep") => ENABLED Connect)
    /\ (lifespan = "stopping") ~> AllTasksDone

C27_Witness ==
    /\ lifespan = "stopped"
    /\ AllTasksDone
    /\ ~running
    /\ Len(spawned["a1b2c3d4"]) = 1
    /\ Len(spawned["e5f6a7b8"]) = 1

\* C28: a scan that raises is logged and leaves the loop in its sleep, from
\* which the next scan can start; the monitor task ends only by the
\* cancellation of stop.
C28_ScanErrorKeepsLoop ==
    /\ [][(Scan /\ monitor_log' = MonitorError) =>
             /\ monitor' = "sleep"
             /\ UNCHANGED <<running, tasks, spawned>>]_vars
    /\ []((monitor_log = MonitorError /\ running) =>
             /\ monitor = "sleep"
             /\ ENABLED Scan)
    /\ [][(monitor' = "done" /\ monitor # "done") => monitor = "cancelling"]_vars

C28_Witness ==
    /\ monitor_log = MonitorError
    /\ running
    /\ monitor = "sleep"
    /\ sockets = SocketIds
    /\ DOMAIN tasks = {"a1b2c3d4"}

\* the lines of its connection the task of a socket id has not taken yet
Unread(sid) ==
    {task_of(sid).conn[j] : j \in (task_of(sid).read + 1)..Len(task_of(sid).conn)}

\* C25: the lines handed to the handler for one socket id are in the order
\* they were written, none twice; each call is for the earliest line its
\* task has not taken yet or for a later one only when those before it are
\* blank or not JSON; and a call is over, its outcome recorded, when the
\* next one is made: the record of the earlier calls never changes.
C25_HandlerCallsInOrder ==
    /\ [](\A sid \in SocketIds :
             \A i, j \in DOMAIN CalledFor(sid) :
                 i < j => CalledFor(sid)[i] < CalledFor(sid)[j])
    /\ [][calls' # calls =>
             /\ Len(calls') = Len(calls) + 1
             /\ SubSeq(calls', 1, Len(calls)) = calls
             /\ LET call == calls'[Len(calls')]
                IN  /\ call.session_id \in DOMAIN tasks
                    /\ task_of(call.session_id).pc = "reading"
                    /\ call.n \in Unread(call.session_id)
                    /\ \A n \in Unread(call.session_id) :
                          n < call.n => ~IsJson(n)
                    /\ call.n \notin
                          {spawned'[call.session_id][tasks[call.session_id]].conn[j] :
                             j \in (spawned'[call.session_id][tasks[call.session_id]].read + 1)
                                   ..Len(spawned'[call.session_id][tasks[call.session_id]].conn)}]_vars

C25_Witness ==
    /\ Len(wire) = 3
    /\ \A n \in DOMAIN wire : wire[n].session_id = "a1b2c3d4"
    /\ wire[1].text = GarbageLine
    /\ wire[2].text = StopLine
    /\ wire[3].text = NoTypeLine
    /\ CalledFor("a1b2c3d4") = <<2, 3>>

\* every JSON object written on the connection the task of a socket id
\* opened last has been handed to the handler
Forwarded(sid) ==
    \A j \in DOMAIN task_of(sid).conn :
        IsObject(task_of(sid).conn[j]) =>
            task_of(sid).conn[j] \in Range(CalledFor(sid))

\* the socket of a task is gone from the directory while the task sleeps
\* with nothing of its last connection lost
Disappeared(sid) ==
    /\ sid \in DOMAIN tasks
    /\ sid \notin sockets
    /\ task_of(sid).pc = "sleep"
    /\ Forwarded(sid)

\* C26: a scan deletes an entry of _tasks only when its task is done and its
\* socket is not in the directory; and once a socket has disappeared under
\* a sleeping task, whenever the socket is there again and the task has
\* nothing left to read, the events written on its connection (all its JSON
\* lines being objects) have all been handed to the handler.
C26_ResumeAfterRecreation ==
    /\ [][\A sid \in DOMAIN tasks \ DOMAIN tasks' :
             Scan /\ done(task_of(sid)) /\ sid \notin sockets]_vars
    /\ \A sid \in SocketIds :
          [](Disappeared(sid) =>
                []((sid \in sockets /\ Drained(sid) /\ OnlyObjects(sid))
                      => Forwarded(sid)))

----------------------------------------------------------------------------
(* Frame of the overlay, and order of the listing *)

\* C29: no step deletes an entry of the overlay, and a step that changes
\* the value of an entry is an update_state; list_sessions, get_session,
\* the end of a tmux session, the start of one and a change of sessions.json
\* leave the overlay as it is.
C29_OverlayKeptUntilUpdate ==
    /\ [][\A n \in DOMAIN state_cache :
             /\ n \in DOMAIN state_cache'
             /\ state_cache'[n] # state_cache[n] => UpdateState]_vars
    /\ [][(ListSessions \/ GetSession \/ TmuxKillSession \/ TmuxNewSession
             \/ SetFile) => state_cache' = state_cache]_vars

C29_Witness ==
    /\ DOMAIN state_cache = SessionNames
    /\ state_cache["konsolai-Default-a1b2c3d4"] = ERROR
    /\ state_cache["konsolai-Dev-e5f6a7b8"] = WAITING_INPUT
    /\ tmux = <<>>
    /\ response.op = "list_sessions"
    /\ response.raised = ""

\* C30: list_sessions() returns its list, in which, of two entries of the
\* same needs_attention bucket, one without last_activity comes before one
\* with a timestamp and two with timestamps come oldest first.
C30_OrderedByLastActivity ==
    response.op = "list_sessions" =>
        /\ response.raised = ""
        /\ \A i, j \in DOMAIN response.result :
              LET a == response.result[i]
                  b == response.result[j]
              IN  (i < j /\ a.needs_attention = b.needs_attention) =>
                      /\ b.last_activity = NoneDt => a.last_activity = NoneDt
                      /\ (a.last_activity # NoneDt /\ b.last_activity # NoneDt) =>
                            a.last_activity <= b.last_activity

----------------------------------------------------------------------------
(* Properties of the subscriber connections *)

\* C31: for every list of connections the manager reaches and every
\* WebSocket, disconnect raises nothing and leaves a list without the
\* WebSocket in which the others keep their order; a second disconnect, and
\* a disconnect of a WebSocket that is not in the list (never registered, or
\* removed by broadcast), leave the list as it is; and the disconnect of a
\* handler that ends does so in the running manager.
C31_DisconnectIdempotent ==
    /\ [](\A ws \in WebSockets :
             LET once == disconnect(connections, ws)
                 twice == disconnect(once.connections, ws)
             IN  /\ once.raised = ""
                 /\ twice.raised = ""
                 /\ ws \notin Range(once.connections)
                 /\ once.connections =
                        SelectSeq(connections, LAMBDA w : w # ws)
                 /\ twice.connections = once.connections
                 /\ ws \notin Range(connections) => once.connections = connections)
    /\ [][\A ws \in WebSockets :
             (endpoint[ws] = "closing" /\ endpoint'[ws] # "closing") =>
                 /\ endpoint'[ws] = "none"
                 /\ ws \notin Range(connections')
                 /\ ws \notin Range(connections) => connections' = connections]_vars

C31_Witness ==
    /\ broadcast.pc = "returned"
    /\ broadcast.dead = <<"ws2">>
    /\ connections = <<"ws1", "ws3">>
    /\ endpoint["ws2"] = "none"

\* the frames that read "ping" once trimmed and lower-cased
PingFrames == {"ping", " PING\n"}

\* C32: the step that takes a frame from a WebSocket sends one pong, to that
\* WebSocket, when the frame is a ping in any case and with any whitespace
\* around it, and sends nothing for any other frame; it changes neither the
\* overlay nor the connection list.
C32_PingAnsweredByPong ==
    /\ [](inbound # NoInbound =>
             /\ inbound.data \in PingFrames =>
                   /\ Len(inbound.replies) = 1
                   /\ inbound.replies[1].to = inbound.ws
                   /\ inbound.replies[1].text = "{\"type\": \"pong\"}"
             /\ inbound.data \notin PingFrames => inbound.replies = <<>>)
    /\ [][inbound' # inbound =>
             /\ state_cache' = state_cache
             /\ connections' = connections]_vars

C32_Witness ==
    /\ inbound.ws = "ws2"
    /\ inbound.data = " PING\n"
    /\ Len(inbound.replies) = 1
    /\ inbound.replies[1].ok
    /\ connections = <<"ws1", "ws2", "ws3">>
    /\ DOMAIN state_cache = SessionNames

\* C40: every WebSocket of the connection list has a handler that is in its
\* receive loop or on its way out of it, and is in the list once; when a
\* handler ends, its WebSocket is not in the list, whether disconnect or an
\* earlier broadcast removed it, and stays out as long as no new handler
\* registers it.
C40_ListedConnectionsHaveHandlers ==
    /\ [](/\ \A ws \in Range(connections) : endpoint[ws] \in {"open", "closing"}
          /\ \A i, j \in DOMAIN connections :
                connections[i] = connections[j] => i = j)
    /\ [][\A ws \in WebSockets :
             /\ (endpoint[ws] = "closing" /\ endpoint'[ws] # "closing") =>
                   ws \notin Range(connections')
             /\ (ws \notin Range(connections) /\ ws \in Range(connections')) =>
                   endpoint[ws] = "accepted"]_vars

C40_Witness ==
    /\ broadcast.pc = "returned"
    /\ Len(broadcast.sends) = 3
    /\ broadcast.dead = <<"ws1">>
    /\ endpoint["ws1"] = "none"
    /\ endpoint["ws2"] = "none"
    /\ connections = <<"ws3">>

\* C34: the step in which a broadcast waiting in a send is cancelled frees
\* the lock, leaves the connection list and the sends already made as they
\* are (those are the connections before the one being sent to), and no
\* later step adds a send to the cancelled call; the lock is held only
\* while a broadcast is sending, so a connect or disconnect that waits for
\* it, and the next broadcast, can go on.
C34_CancelledBroadcastFreesLock ==
    /\ [][(broadcast.pc = "send" /\ broadcast'.pc = "cancelled") =>
             /\ lock' = Unlocked
             /\ connections' = connections
             /\ broadcast'.sends = broadcast.sends
             /\ Len(broadcast'.sends) = broadcast.i - 1
             /\ Len(broadcast'.sends) < Len(connections)
             /\ \A j \in DOMAIN broadcast'.sends :
                   broadcast'.sends[j].ws = connections[j]
             /\ broadcast'.event = broadcast.event]_vars
    /\ [][(broadcast.pc = "cancelled" /\ broadcast' # broadcast) =>
             /\ broadcast'.sends = <<>>
             /\ broadcast'.pc \in {"send", "returned"}]_vars
    /\ [](lock # Unlocked => broadcast.pc = "send")
    /\ []((lock = Unlocked /\ \E ws \in WebSockets : endpoint[ws] = "accepted")
              => ENABLED WsRegister)
    /\ []((lock = Unlocked /\ \E ws \in WebSockets : endpoint[ws] = "closing")
              => ENABLED WsUnregister)
    /\ [](broadcast.pc = "cancelled" => ENABLED Broadcast)

C34_Witness ==
    /\ broadcast.pc = "cancelled"
    /\ Len(broadcast.sends) = 1
    /\ broadcast.sends[1].ok
    /\ Len(connections) = 2
    /\ broadcast.sends[1].ws \notin Range(connections)
    /\ endpoint[broadcast.sends[1].ws] = "none"

----------------------------------------------------------------------------
(* Property of the vehicle routes, under SpecVehicle *)

\* the answer in http is one of a vehicle route
VehicleAnswered ==
    http.route \in {"GET /api/vehicle/dashboard",
                    "GET /api/vehicle/android-auto/sessions"}

----------------------------------------------------------------------------
(* Properties of the handler as the writer of the overlay *)

\* a detail or a summary that shows a quiet session
Quiet(s) == s.state \in {IDLE, WORKING, NOT_RUNNING} /\ ~s.needs_attention

\* C36: the overlay holds no state but idle and working; and right after a
\* Stop or PreToolUse event is handled, get_session and list_sessions
\* report every session the event's short id stands for as idle, working or
\* not_running and not needing attention, whatever its record says.
C36_HandledSessionsAreQuiet ==
    /\ [](\A n \in DOMAIN state_cache : state_cache[n] \in {IDLE, WORKING})
    /\ [][(HookEvent /\ dict_get(response'.event.items, "type", "")
                            \in {"Stop", "PreToolUse"}) =>
             \A name \in KnownNamesOf(response'.session_id) :
                 /\ Quiet(get_session(state_cache', read_persisted,
                                      session_exists(name), name))
                 /\ \A order \in KeyOrders(DOMAIN read_persisted) :
                       LET listed == list_sessions(state_cache', read_persisted,
                                                   tmux, order)
                       IN  \A i \in DOMAIN listed :
                               listed[i].name = name => Quiet(listed[i])]_vars

C35_BroadcastsDoNotInterleave ==
    [][/\ (broadcast.pc = "send" /\ broadcast' # broadcast) =>
             /\ broadcast'.pc \in {"send", "returned"}
             /\ broadcast'.event = broadcast.event
             /\ Len(broadcast'.sends) = Len(broadcast.sends) + 1
             /\ SubSeq(broadcast'.sends, 1, Len(broadcast.sends)) = broadcast.sends
             /\ broadcast'.sends[Len(broadcast'.sends)].payload =
                    model_dump_json(broadcast.event)
       /\ (HookEvent /\ response'.event.json = "object"
                     /\ dict_get(response'.event.items, "type", "")
                            \in SpecificTypes) =>
             /\ Len(response'.emitted) = 2
             /\ DOMAIN response'.emitted[1].data # {"hook_event", "raw"}
             /\ response'.emitted[2].type = NOTIFICATION
             /\ response'.emitted[2].data =
                    [hook_event |-> dict_get(response'.event.items, "type", ""),
                     raw |-> response'.event.items]]_vars

----------------------------------------------------------------------------
(* Properties of a listener task whose callback raises *)

\* the step in which the callback, called by task k of a socket id, raises
CallbackRaises(sid, k) ==
    /\ spawned[sid][k].pc = "reading"
    /\ spawned'[sid][k] # spawned[sid][k]
    /\ Len(calls') = Len(calls) + 1
    /\ calls'[Len(calls')].session_id = sid
    /\ calls'[Len(calls')].raised # ""

\* C38: when the handler raises on a line, the task that called it is not
\* finished and the monitor loop is untouched: the task is at its sleep, no
\* further line of the connection it had is handed to the handler (the
\* handler is called by reading tasks only, and a task comes back to reading
\* only through a connect that gives it a connection with no line on it),
\* and while the listener runs a sleeping task connects again or keeps
\* sleeping, never finishes.
C38_HandlerErrorDropsConnection ==
    [][\A sid \in SocketIds :
          \A k \in DOMAIN spawned[sid] :
              /\ CallbackRaises(sid, k) =>
                    /\ spawned'[sid][k].pc = "sleep"
                    /\ <<monitor', monitor_task', running', tasks'>> =
                           <<monitor, monitor_task, running, tasks>>
              /\ (spawned[sid][k].pc = "sleep" /\ calls' # calls) =>
                    calls'[Len(calls')].n \notin Range(spawned[sid][k].conn)
              /\ (spawned[sid][k].pc = "sleep" /\ running'
                     /\ spawned'[sid][k] # spawned[sid][k]) =>
                    \/ spawned'[sid][k].pc = "sleep"
                    \/ /\ spawned'[sid][k].pc = "reading"
                       /\ spawned'[sid][k].conn = <<>>
                       /\ spawned'[sid][k].read = 0]_vars

\* the handler raised on line 1, line 2 of the same connection was never
\* handed over, and the task has connected again and handed over line 3
C38_Witness ==
    /\ Len(wire) = 3
    /\ \A n \in DOMAIN wire : wire[n].session_id = "a1b2c3d4"
    /\ wire[1].text = StopLine
    /\ wire[2].text = StopLine
    /\ CalledFor("a1b2c3d4") = <<1, 3>>
    /\ calls[1].raised # ""
    /\ \E k \in DOMAIN spawned["a1b2c3d4"] :
          /\ spawned["a1b2c3d4"][k].pc = "sleep"
          /\ spawned["a1b2c3d4"][k].conn = <<3>>

\* C39: from one state of a running listener to the next, no task that was
\* not finished is finished, and every socket id that has an entry in _tasks
\* still has one, whether its socket is in the directory or not.
C39_TrackedIdsOnlyGrow ==
    [][(running /\ running') =>
          /\ DOMAIN tasks \subseteq DOMAIN tasks'
          /\ \A sid \in SocketIds :
                \A k \in DOMAIN spawned[sid] :
                    ~done(spawned[sid][k]) => ~done(spawned'[sid][k])]_vars

\* the socket of a1b2c3d4 is gone, its task has failed to connect and the
\* monitor has scanned and sleeps; the entry is still there, next to the
\* entry of a socket that is in the directory
C39_Witness ==
    /\ running
    /\ monitor = "sleep"
    /\ monitor_log = ""
    /\ sockets = {"e5f6a7b8"}
    /\ DOMAIN tasks = SocketIds
    /\ Len(spawned["a1b2c3d4"]) = 1
    /\ task_of("a1b2c3d4").pc = "sleep"
    /\ task_of("e5f6a7b8").pc = "reading"

====
